---- MODULE Spec2Model ----
(***************************************************************************)
(* Model of the actor node of src/actor.js: the registry (actors), the     *)
(* reply correlation map (replyTos), the callbacks handed to setTimeout    *)
(* (timers), and the handler invocations that a timer callback has started *)
(* and that have not settled yet (inflight).  Handlers are user code: an   *)
(* invocation in flight may call send and respondWith, return any state,   *)
(* throw, or never settle.  A timer callback is two steps, the part before *)
(* the await of line 49 (Tick) and the part after it (Complete).           *)
(***************************************************************************)
EXTENDS Integers, Sequences, FiniteSets, TLC

\* ---- bounds -------------------------------------------------------------
NumIds == 1        \* identifiers the id generator produces (actors spawned)
NumMsgs == 2       \* distinct message object instances
NumStates == 2     \* distinct state references
MaxSends == 2      \* accepted send calls in one behaviour
MaxReplies == 2    \* respondWith calls one handler invocation can make

Ids == 1..NumIds
Msgs == 1..NumMsgs
States == 1..NumStates
SendIds == 1..MaxSends

\* State references are opaque to the node and every handler may return any of
\* them, so the reference an actor is spawned with is fixed without loss.
InitialStates == {1}

\* ---- Status (src/actor.js:191-210) ---------------------------------------
Idle == "idle"
Processing == "processing"
Waiting == "waiting"

\* `Actor/${actorID}`
Address(actorID) == <<"Actor", actorID>>

\* The addresses send is called with: those of the identifiers a generator
\* produces, and one made of an identifier no generator produces.
Addrs == {Address(i) : i \in 0..(NumIds + 1)}

\* actors.get(address) on a registry that has no entry for address
NoActor == 0

\* replyTos.get(message) for a message that has no entry.  A reply callback is
\* named after the send call that passed it: <<actor record, number of the
\* send among those accepted for that record>>.
NoReplyTo == <<>>

VARIABLES
  actors,     \* Map address -> actor record (an index into recs, NoActor if absent)
  recs,       \* the actor record objects ever created, in creation order
  replyTos,   \* WeakMap message instance -> reply callback (NoReplyTo if absent)
  timers,     \* setTimeout(..., 0) callbacks not yet run, in firing order,
              \* each with the address and the record its closure holds
  inflight,   \* handler invocations started and not yet settled
  nSends,     \* number of send calls accepted so far
  accepted,   \* per actor record, the number of send calls accepted for it
  started,    \* per actor record, the sends whose handler invocation has started
  emitted,    \* listener notifications emitted by the last step, in order
  last,       \* the operation performed by the last step
  ledger      \* the account program's record of messages sent and replies received

vars == <<actors, recs, replyTos, timers, inflight, nSends, accepted,
          started, emitted, last, ledger>>

\* The node's mutable data as one value, so that the code's functions can be
\* written as functions from node to node.
Node ==
  [actors |-> actors, recs |-> recs, replyTos |-> replyTos, timers |-> timers,
   inflight |-> inflight, nSends |-> nSends, accepted |-> accepted,
   started |-> started, emitted |-> <<>>]

InstallNode(n) ==
  /\ actors' = n.actors
  /\ recs' = n.recs
  /\ replyTos' = n.replyTos
  /\ timers' = n.timers
  /\ inflight' = n.inflight
  /\ accepted' = n.accepted
  /\ nSends' = n.nSends
  /\ started' = n.started
  /\ emitted' = n.emitted

\* A step of a node whose handlers are arbitrary user code.
Install(n) == InstallNode(n) /\ ledger' = ledger

Emit(n, e) == [n EXCEPT !.emitted = Append(@, e)]

StatusChanged(address, status) ==
  [kind |-> "statusChanged", addr |-> address, status |-> status]
StateChanged(address, current, previous) ==
  [kind |-> "stateChanged", addr |-> address, current |-> current,
   previous |-> previous]
MessageSent(m, to) == [kind |-> "messageSent", addr |-> to, msg |-> m]
Spawned(address) == [kind |-> "spawned", addr |-> address]

\* tick with the mailbox read from the wrong end (pop for shift).
tick_pop(n, timer) ==
  LET address == timer.addr
      a == timer.actor IN
    IF n.recs[a].messages = <<>> THEN n
    ELSE LET nextMessage == n.recs[a].messages[Len(n.recs[a].messages)]
             replyTo == n.replyTos[nextMessage.msg]
             n1 == [n EXCEPT !.recs[a].messages = SubSeq(@, 1, Len(@) - 1),
                             !.recs[a].status = Processing]
             n2 == Emit(n1, StatusChanged(address, Processing))
             inv == [rec |-> a, addr |-> address, msg |-> nextMessage.msg,
                     sid |-> nextMessage.sid, cb |-> nextMessage.cb,
                     respondWith |-> replyTo, received |-> n.recs[a].state,
                     replies |-> 0]
         IN [n2 EXCEPT !.inflight = @ \cup {inv},
                       !.started[a] = Append(@, nextMessage.sid)]

\* ---- the timer callback up to the handler call (lines 31-58) --------------
tick(n, timer) ==
  LET address == timer.addr
      a == timer.actor IN
    IF n.recs[a].messages = <<>> THEN n
    ELSE LET nextMessage == Head(n.recs[a].messages)
             replyTo == n.replyTos[nextMessage.msg]
             n1 == [n EXCEPT !.recs[a].messages = Tail(@),
                             !.recs[a].status = Processing]
             n2 == Emit(n1, StatusChanged(address, Processing))
             inv == [rec |-> a, addr |-> address, msg |-> nextMessage.msg,
                     sid |-> nextMessage.sid, cb |-> nextMessage.cb,
                     respondWith |-> replyTo, received |-> n.recs[a].state,
                     replies |-> 0]
         IN [n2 EXCEPT !.inflight = @ \cup {inv},
                       !.started[a] = Append(@, nextMessage.sid)]

\* enqueueActor with the timer callback called directly instead of being
\* handed to setTimeout.
enqueueActor_sync(n, address) ==
  IF n.actors[address] = NoActor THEN n
  ELSE LET a == n.actors[address] IN
    IF n.recs[a].status = Waiting THEN n
    ELSE LET n1 == tick(n, [addr |-> address, actor |-> a])
         IN Emit([n1 EXCEPT !.recs[a].status = Waiting],
                 StatusChanged(address, Waiting))

\* enqueueActor without the early return of line 29.
enqueueActor_always(n, address) ==
  IF n.actors[address] = NoActor THEN n
  ELSE LET a == n.actors[address] IN
    Emit([n EXCEPT !.timers = Append(@, [addr |-> address, actor |-> a]),
                   !.recs[a].status = Waiting],
         StatusChanged(address, Waiting))

\* ---- enqueueActor, the part that runs in the caller (lines 22-31, 80-81) --
enqueueActor(n, address) ==
  IF n.actors[address] = NoActor THEN n
  ELSE LET a == n.actors[address] IN
    IF n.recs[a].status = Waiting THEN n
    ELSE Emit([n EXCEPT !.timers = Append(@, [addr |-> address, actor |-> a]),
                        !.recs[a].status = Waiting],
              StatusChanged(address, Waiting))

\* send with the reply callback registered before the registry lookup.
send_early(n, to, aMessage, cb) ==
  LET n0 == IF cb THEN [n EXCEPT !.replyTos[aMessage] = <<1, 1>>] ELSE n IN
  IF n0.actors[to] = NoActor THEN n0
  ELSE LET a == n0.actors[to]
           sid == n0.accepted[a] + 1
           n1 == [n0 EXCEPT !.recs[a].messages =
                     Append(@, [msg |-> aMessage, sid |-> sid, cb |-> cb]),
                            !.accepted[a] = sid, !.nSends = @ + 1,
                            !.replyTos[aMessage] =
                               IF cb THEN <<a, sid>> ELSE @]
           n3 == Emit(n1, MessageSent(aMessage, to))
       IN IF Len(n3.recs[a].messages) > 0 THEN enqueueActor(n3, to) ELSE n3

\* ---- send (lines 92-108) --------------------------------------------------
\* cb says whether a replyTo function was passed.  The queued message carries
\* the number of its send call (sid) and cb, which the code does not store.
send(n, to, aMessage, cb) ==
  IF n.actors[to] = NoActor THEN n
  ELSE LET a == n.actors[to]
           sid == n.accepted[a] + 1
           n1 == [n EXCEPT !.recs[a].messages =
                     Append(@, [msg |-> aMessage, sid |-> sid, cb |-> cb]),
                           !.accepted[a] = sid, !.nSends = @ + 1]
           n2 == IF cb THEN [n1 EXCEPT !.replyTos[aMessage] = <<a, sid>>]
                 ELSE n1
           n3 == Emit(n2, MessageSent(aMessage, to))
       IN IF Len(n3.recs[a].messages) > 0 THEN enqueueActor(n3, to) ELSE n3

\* ---- spawn (lines 118-132) ------------------------------------------------
\* spawn followed by a call of enqueueActor for the new address.
spawn_enqueue(n, actorID, initialState) ==
  LET a == Len(n.recs) + 1
      n1 == [n EXCEPT !.recs = Append(@, [handler |-> a, messages |-> <<>>,
                                          state |-> initialState,
                                          status |-> Idle]),
                      !.actors[Address(actorID)] = a,
                      !.accepted = Append(@, 0),
                      !.started = Append(@, <<>>)]
  IN enqueueActor(Emit(n1, Spawned(Address(actorID))), Address(actorID))

spawn(n, actorID, initialState) ==
  LET a == Len(n.recs) + 1
      n1 == [n EXCEPT !.recs = Append(@, [handler |-> a, messages |-> <<>>,
                                          state |-> initialState,
                                          status |-> Idle]),
                      !.actors[Address(actorID)] = a,
                      !.accepted = Append(@, 0),
                      !.started = Append(@, <<>>)]
  IN Emit(n1, Spawned(Address(actorID)))

\* complete without the test of line 71: the actor is made Idle whatever its
\* mailbox holds.
complete_idle(n, inv, nextState) ==
  LET a == inv.rec
      n1 == [n EXCEPT !.inflight = @ \ {inv}, !.replyTos[inv.msg] = NoReplyTo]
      n2 == IF n1.recs[a].state # nextState
            THEN Emit([n1 EXCEPT !.recs[a].state = nextState],
                      StateChanged(inv.addr, nextState, n1.recs[a].state))
            ELSE n1
  IN Emit([n2 EXCEPT !.recs[a].status = Idle], StatusChanged(inv.addr, Idle))

\* complete without the call of enqueueActor at line 77.
complete_noEnqueue(n, inv, nextState) ==
  LET a == inv.rec
      n1 == [n EXCEPT !.inflight = @ \ {inv}, !.replyTos[inv.msg] = NoReplyTo]
      n2 == IF n1.recs[a].state # nextState
            THEN Emit([n1 EXCEPT !.recs[a].state = nextState],
                      StateChanged(inv.addr, nextState, n1.recs[a].state))
            ELSE n1
  IN IF Len(n2.recs[a].messages) = 0
     THEN Emit([n2 EXCEPT !.recs[a].status = Idle],
               StatusChanged(inv.addr, Idle))
     ELSE n2

\* ---- the timer callback after the handler settled (lines 59-77) -----------
complete(n, inv, nextState) ==
  LET a == inv.rec
      n1 == [n EXCEPT !.inflight = @ \ {inv}, !.replyTos[inv.msg] = NoReplyTo]
      n2 == IF n1.recs[a].state # nextState
            THEN Emit([n1 EXCEPT !.recs[a].state = nextState],
                      StateChanged(inv.addr, nextState, n1.recs[a].state))
            ELSE n1
  IN IF Len(n2.recs[a].messages) = 0
     THEN Emit([n2 EXCEPT !.recs[a].status = Idle],
               StatusChanged(inv.addr, Idle))
     ELSE enqueueActor(n2, inv.addr)

\* A handler that throws or rejects: the await at line 49 rethrows, the async
\* timer callback rejects and none of lines 59-77 runs.
fail(n, inv) == [n EXCEPT !.inflight = @ \ {inv}]

\* ctx.respondWith(aReply): respondWith is the replyTo function itself (line
\* 51), so every call runs the callback.
respond(n, inv) ==
  [n EXCEPT !.inflight = (@ \ {inv}) \cup {[inv EXCEPT !.replies = @ + 1]}]

NoOp == [op |-> "init", addr |-> Address(1), sid |-> 0]

Init ==
  /\ actors = [ad \in Addrs |-> NoActor]
  /\ recs = <<>>
  /\ replyTos = [m \in Msgs |-> NoReplyTo]
  /\ timers = <<>>
  /\ inflight = {}
  /\ nSends = 0
  /\ accepted = <<>>
  /\ started = <<>>
  /\ emitted = <<>>
  /\ last = NoOp
  /\ ledger = [opened |-> <<>>, sent |-> <<>>, calls |-> <<>>]

\* ---- actions --------------------------------------------------------------
\* node.spawn with an id generator that never returns an identifier twice.
\* Identifiers are opaque, so they are taken in increasing order.
Spawn ==
  \E actorID \in Ids, initialState \in InitialStates :
    /\ actors[Address(actorID)] = NoActor
    /\ \A i \in Ids : i < actorID => actors[Address(i)] # NoActor
    /\ Install(spawn(Node, actorID, initialState))
    /\ last' = [op |-> "spawn", addr |-> Address(actorID), sid |-> 0]

\* send called from outside any handler.
Send ==
  \E to \in Addrs, aMessage \in Msgs, cb \in BOOLEAN :
    /\ nSends < MaxSends
    /\ Install(send(Node, to, aMessage, cb))
    /\ last' = [op |-> "send", addr |-> to,
                sid |-> IF actors[to] = NoActor THEN 0
                        ELSE accepted[actors[to]] + 1]

\* send called by a handler invocation in flight (to itself or another actor).
HandlerSend ==
  \E inv \in inflight, to \in Addrs, aMessage \in Msgs, cb \in BOOLEAN :
    /\ nSends < MaxSends
    /\ Install(send(Node, to, aMessage, cb))
    /\ last' = [op |-> "handlerSend", addr |-> to, from |-> inv.addr,
                sid |-> IF actors[to] = NoActor THEN 0
                        ELSE accepted[actors[to]] + 1]

\* ctx.respondWith(reply) called by a handler invocation in flight.
HandlerRespond ==
  \E inv \in inflight :
    /\ inv.respondWith # NoReplyTo
    /\ inv.replies < MaxReplies
    /\ Install(respond(Node, inv))
    /\ last' = [op |-> "respond", addr |-> inv.addr, sid |-> inv.sid,
                callback |-> inv.respondWith]

\* The oldest timer fires.
Tick ==
  /\ timers # <<>>
  /\ Install(tick([Node EXCEPT !.timers = Tail(@)], Head(timers)))
  /\ last' = [op |-> "tick", addr |-> Head(timers).addr, sid |-> 0]

\* A handler invocation returns (or its promise resolves with) nextState.
Complete ==
  \E inv \in inflight, nextState \in States :
    /\ Install(complete(Node, inv, nextState))
    /\ last' = [op |-> "complete", addr |-> inv.addr, sid |-> inv.sid,
                rec |-> inv.rec, received |-> inv.received,
                returned |-> nextState]

\* A handler invocation throws (or its promise rejects).
Fail ==
  \E inv \in inflight :
    /\ Install(fail(Node, inv))
    /\ last' = [op |-> "fail", addr |-> inv.addr, sid |-> inv.sid,
                rec |-> inv.rec]

Next ==
  \/ Spawn
  \/ Send
  \/ HandlerSend
  \/ HandlerRespond
  \/ Tick
  \/ Complete
  \/ Fail

Spec == Init /\ [][Next]_vars

\* Every timer eventually fires and every handler invocation eventually
\* returns normally: no handler throws.  Calls of respondWith are left out;
\* they run the caller's callback and touch nothing the scheduling reads.
NextLive ==
  \/ Spawn
  \/ Send
  \/ HandlerSend
  \/ Tick
  \/ Complete

LiveSpec == Init /\ [][NextLive]_vars /\ WF_vars(Tick) /\ WF_vars(Complete)

\* ---- a node whose generateID option repeats an identifier -----------------
\* The records one node creates in a run of the model.
MaxRecs == NumIds + 1

\* spawn when options.generateID() (line 15) returns an identifier that is
\* registered already.
SpawnSameID ==
  \E actorID \in Ids, initialState \in InitialStates :
    /\ actors[Address(actorID)] # NoActor
    /\ Len(recs) < MaxRecs
    /\ Install(spawn(Node, actorID, initialState))
    /\ last' = [op |-> "spawn", addr |-> Address(actorID), sid |-> 0]

SameIDNext ==
  \/ Spawn
  \/ SpawnSameID
  \/ Send
  \/ Tick
  \/ Complete

SameIDSpec == Init /\ [][SameIDNext]_vars

\* ---- the account program (src/unnamed/part_000) ---------------------------
\* What the message object m holds.  Amounts are 1 (accepted) or 0 (refused).
Content(m) ==
  CASE m % 4 = 1 -> [type |-> "getBalance", amount |-> 0]
    [] m % 4 = 2 -> [type |-> "deposit", amount |-> 1]
    [] m % 4 = 3 -> [type |-> "withdrawal", amount |-> 1]
    [] OTHER -> [type |-> "deposit", amount |-> 0]

\* accountHandler (lines 49-62); a state is its balance.  The result is the
\* returned state and the values passed to ctx.respondWith, in order.
accountHandler(respondWith, state, message) ==
  CASE message.type = "deposit" ->
         [state |-> IF message.amount <= 0 THEN state
                    ELSE state + message.amount,
          replies |-> <<>>]
    [] message.type = "withdrawal" ->
         [state |-> IF message.amount <= 0 THEN state
                    ELSE state - message.amount,
          replies |-> <<>>]
    [] OTHER ->
         [state |-> state,
          replies |-> IF respondWith # NoReplyTo THEN <<state>> ELSE <<>>]

\* The opening balances of the accounts (lines 64, 67).
InitialBalances == {1, 2}

\* The identifiers of the accounts: the program opens one account more than
\* the nodes with arbitrary handlers have actors.
AccountIds == 1..(NumIds + 1)

\* star.spawn(accountHandler, {balance: ...}) (lines 64, 67)
AccountSpawn ==
  \E actorID \in AccountIds, initialState \in InitialBalances :
    /\ actors[Address(actorID)] = NoActor
    /\ \A i \in AccountIds : i < actorID => actors[Address(i)] # NoActor
    /\ InstallNode(spawn(Node, actorID, initialState))
    /\ ledger' = [ledger EXCEPT !.opened = Append(@, initialState),
                                !.sent = Append(@, <<>>)]
    /\ last' = [op |-> "spawn", addr |-> Address(actorID), sid |-> 0]

\* account.send(message) and account.send(message, callback) (lines 65-72);
\* the callback stores what it receives (the program prints it).
AccountSend ==
  \E to \in Addrs, aMessage \in Msgs, cb \in BOOLEAN :
    /\ nSends < MaxSends
    /\ InstallNode(send(Node, to, aMessage, cb))
    /\ ledger' = IF actors[to] = NoActor THEN ledger
                 ELSE [ledger EXCEPT !.sent[actors[to]] =
                         Append(@, [msg |-> aMessage, cb |-> cb])]
    /\ last' = [op |-> "send", addr |-> to,
                sid |-> IF actors[to] = NoActor THEN 0
                        ELSE accepted[actors[to]] + 1]

\* The oldest timer fires.  accountHandler is synchronous: the await of line
\* 49 resumes before any other timer or caller runs, so the whole timer
\* callback is one step.
AccountTick ==
  /\ timers # <<>>
  /\ LET n1 == tick([Node EXCEPT !.timers = Tail(@)], Head(timers))
         begun == n1.inflight \ inflight
     IN IF begun = {} THEN InstallNode(n1) /\ ledger' = ledger
        ELSE LET inv == CHOOSE i \in begun : TRUE
                 h == accountHandler(inv.respondWith, inv.received,
                                     Content(inv.msg))
                 n2 == IF h.replies = <<>> THEN n1 ELSE respond(n1, inv)
                 inv2 == CHOOSE i \in n2.inflight : i.sid = inv.sid
             IN /\ InstallNode(complete(n2, inv2, h.state))
                /\ ledger' = [ledger EXCEPT !.calls = @ \o
                     [i \in 1..Len(h.replies) |->
                        [callback |-> inv.respondWith, value |-> h.replies[i]]]]
  /\ last' = [op |-> "tick", addr |-> Head(timers).addr, sid |-> 0]

AccountNext ==
  \/ AccountSpawn
  \/ AccountSend
  \/ AccountTick

AccountSpec == Init /\ [][AccountNext]_vars

\* ---- helpers for the properties -------------------------------------------
Recs == 1..Len(recs)
IsSend(l) == l.op \in {"send", "handlerSend"}
IsStateChanged(e) == e.kind = "stateChanged"
IsStatusChanged(e) == e.kind = "statusChanged"
MailboxSids(a) == {recs[a].messages[i].sid : i \in 1..Len(recs[a].messages)}
StartedSids(a) == {started[a][i] : i \in 1..Len(started[a])}
Increasing(q) == \A i, j \in 1..Len(q) : i < j => q[i] < q[j]
MailboxSidSeq(a) == [i \in 1..Len(recs[a].messages) |-> recs[a].messages[i].sid]
InFlightOf(a) == {inv \in inflight : inv.rec = a}

\* C1: at most one handler invocation is in flight per actor: no message of an
\* actor is dequeued while the invocation for an earlier one has not completed.
C1_OneInFlight == \A a \in Recs : Cardinality(InFlightOf(a)) <= 1

\* C2: FIFO per actor: handler invocations of an actor start in the order in
\* which send accepted their messages, and every message still queued was sent
\* after every message whose invocation has started.
C2_Fifo ==
  \A a \in Recs :
    /\ Increasing(started[a])
    /\ Increasing(MailboxSidSeq(a))
    /\ \A s \in StartedSids(a), q \in MailboxSids(a) : s < q

C2_Witness ==
  \E a \in Recs : Len(started[a]) = 2 /\ last.op = "tick"

\* C3: while a message is handled its reply callback is invoked at most once,
\* however often the handler calls respondWith.
C3_ReplyAtMostOnce == \A inv \in inflight : inv.replies <= 1

\* C4: the invocation that processes a send is offered respondWith exactly if
\* that send passed a reply callback, and respondWith is that send's callback.
C4_RespondWithOfSend ==
  \A inv \in inflight :
    inv.respondWith = (IF inv.cb THEN <<inv.rec, inv.sid>> ELSE NoReplyTo)

\* C5: a handler that returns the state reference it received causes no
\* state-changed notification and no change of the stored state; one that
\* returns another reference causes exactly one notification (returned,
\* received).
C5_StateChangeIdempotence ==
  [][last'.op = "complete" =>
       LET l == last'
           sc == SelectSeq(emitted', IsStateChanged)
       IN IF l.returned = l.received
          THEN sc = <<>> /\ recs'[l.rec].state = recs[l.rec].state
          ELSE sc = <<StateChanged(l.addr, l.returned, l.received)>>]_vars

\* C6: send to an address that is not registered changes nothing: no record,
\* no reply correlation, no timer, no invocation, no notification.
C6_UnknownAddress ==
  [][(IsSend(last') /\ actors[last'.addr] = NoActor) =>
       /\ UNCHANGED <<actors, recs, replyTos, timers, inflight, nSends,
                      accepted, started>>
       /\ emitted' = <<>>]_vars

C6_Witness ==
  /\ IsSend(last)
  /\ actors[last.addr] = NoActor
  /\ \E a \in Recs : recs[a].messages # <<>>
  /\ \E m \in Msgs : replyTos[m] # NoReplyTo

\* C8: a handler that throws leaves the actor Idle (mailbox empty) or Waiting
\* with a timer (mailbox non-empty), its state unchanged.
C8_FailureContained ==
  [][last'.op = "fail" =>
       LET a == last'.rec IN
         /\ recs'[a].state = recs[a].state
         /\ recs'[a].status =
              (IF recs'[a].messages = <<>> THEN Idle ELSE Waiting)
         /\ recs'[a].messages # <<>> =>
              \E i \in 1..Len(timers') : timers'[i].addr = last'.addr]_vars

\* Every accepted send is in exactly one place: one slot of its actor's mailbox
\* or one slot of its actor's started list.
HandledExactlyOnce ==
  \A a \in Recs : \A s \in 1..accepted[a] :
    Cardinality({i \in 1..Len(recs[a].messages) : recs[a].messages[i].sid = s})
    + Cardinality({i \in 1..Len(started[a]) : started[a][i] = s}) = 1

\* C7: no handler invocation starts during a send call (also one made by a
\* handler to its own address): the message is queued and a timer is pending
\* for its actor, and every accepted message is queued or started exactly once.
C7_SendNeverRunsHandler ==
  /\ []HandledExactlyOnce
  /\ [][IsSend(last') =>
          /\ inflight' = inflight
          /\ started' = started
          /\ last'.sid # 0 =>
               /\ last'.sid \in {recs'[actors'[last'.addr]].messages[i].sid :
                     i \in 1..Len(recs'[actors'[last'.addr]].messages)}
               /\ \E i \in 1..Len(timers') : timers'[i].addr = last'.addr]_vars

C7_Witness ==
  /\ last.op = "handlerSend"
  /\ last.from = last.addr
  /\ last.sid \in MailboxSids(actors[last.addr])
  /\ InFlightOf(actors[last.addr]) # {}

AllStarted ==
  \A a \in Recs : \A s \in 1..accepted[a] : s \in StartedSids(a)
Quiescent ==
  /\ inflight = {}
  /\ timers = <<>>
  /\ \A a \in Recs : recs[a].status = Idle /\ recs[a].messages = <<>>

\* C9: if every timer fires and every handler invocation completes normally,
\* every accepted message is eventually passed to its actor's handler (again
\* and again all messages accepted so far have been), and once sends have
\* stopped every actor ends Idle with an empty mailbox.
C9_DeliveryLiveness == []<>AllStarted /\ <>[]Quiescent

C9_Witness ==
  /\ nSends = MaxSends
  /\ \E a \in Recs : Len(started[a]) >= 2
  /\ Quiescent

AddressOf(a) == CHOOSE ad \in Addrs : actors[ad] = a

\* C10: while a handler invocation of actor A is not completing, A dequeues no
\* further message, and every other actor's record changes only in steps on
\* its own address.
C10_StalledActorIsolated ==
  [][/\ \A a \in Recs :
          (InFlightOf(a) # {} /\ InFlightOf(a) \subseteq inflight') =>
             /\ Len(recs'[a].messages) >= Len(recs[a].messages)
             /\ started'[a] = started[a]
     /\ \A b \in Recs : recs'[b] # recs[b] => last'.addr = AddressOf(b)]_vars

\* The balance after the first k messages sent to an account, applied in order.
RECURSIVE BalanceAfter(_, _)
BalanceAfter(a, k) ==
  IF k = 0 THEN ledger.opened[a]
  ELSE accountHandler(NoReplyTo, BalanceAfter(a, k - 1),
                      Content(ledger.sent[a][k].msg)).state

CallsTo(callback) ==
  {i \in 1..Len(ledger.calls) : ledger.calls[i].callback = callback}

\* C11: the callback of a getBalance query receives, exactly once when the
\* query has been handled and never before, the balance that results from
\* applying all messages sent earlier to that account in order.
C11_ReplyReflectsState ==
  /\ \A i \in 1..Len(ledger.calls) :
       LET c == ledger.calls[i].callback
       IN ledger.calls[i].value = BalanceAfter(c[1], c[2] - 1)
  /\ \A a \in Recs : \A s \in 1..Len(ledger.sent[a]) :
       (ledger.sent[a][s].cb /\ Content(ledger.sent[a][s].msg).type = "getBalance")
         => Cardinality(CallsTo(<<a, s>>)) =
              (IF s \in StartedSids(a) THEN 1 ELSE 0)

C13_SendSchedulesOnlyWhenIdle ==
  [][(IsSend(last') /\ actors[last'.addr] # NoActor) =>
       LET address == last'.addr
           a == actors[address]
       IN /\ Len(recs'[a].messages) = Len(recs[a].messages) + 1
          /\ emitted'[1].kind = "messageSent"
          /\ IF recs[a].status \in {Waiting, Processing}
             THEN /\ timers' = timers
                  /\ recs'[a].status = recs[a].status
                  /\ Len(emitted') = 1
             ELSE /\ timers' = Append(timers, [addr |-> address, actor |-> a])
                  /\ recs'[a].status = Waiting]_vars

TimersOf(q, address) == {i \in 1..Len(q) : q[i].addr = address}

\* C14: every actor has at most one scheduled tick that has not run yet, and
\* every tick that runs finds a message in the mailbox.
C14_NoDuplicatedTick ==
  [][/\ \A address \in Addrs : Cardinality(TimersOf(timers', address)) <= 1
     /\ last'.op = "tick" => recs[actors[last'.addr]].messages # <<>>]_vars

\* A tick has run for a message that was sent while the handler of the
\* actor was in flight.
C14_Witness ==
  /\ last.op = "tick"
  /\ \E a \in Recs : /\ Cardinality(InFlightOf(a)) = 2
                     /\ Len(started[a]) = 2

\* C15: between steps, an Idle actor has an empty mailbox and no scheduled
\* tick, and a Waiting actor has at least one queued message and a scheduled
\* tick that has not run.
C15_StatusMailbox ==
  \A address \in Addrs : actors[address] # NoActor =>
    LET actor == recs[actors[address]] IN
      /\ actor.status = Idle =>
            actor.messages = <<>> /\ TimersOf(timers, address) = {}
      /\ actor.status = Waiting =>
            actor.messages # <<>> /\ TimersOf(timers, address) # {}

\* An actor is Waiting because of a send made while its handler was in
\* flight, and that handler has since completed.
C15_Witness ==
  /\ last.op = "complete"
  /\ \E a \in Recs : /\ recs[a].status = Waiting
                     /\ Len(started[a]) = 1
                     /\ InFlightOf(a) = {}

\* C16: an actor's status is Processing exactly while one handler invocation
\* for one of its messages is in flight; in particular the status is not
\* Waiting or Idle before that invocation has completed.
C16_ProcessingIffInFlight ==
  \A a \in Recs :
    /\ Cardinality(InFlightOf(a)) <= 1
    /\ recs[a].status = Processing <=> InFlightOf(a) # {}

StatusTransitions ==
  {<<Idle, Waiting>>, <<Waiting, Processing>>, <<Processing, Idle>>,
   <<Processing, Waiting>>}

\* C17: every status-changed notification reports one of the transitions
\* Idle->Waiting, Waiting->Processing, Processing->Idle, Processing->Waiting
\* from the status notified before it (Idle at first), and the status stored
\* after the step is the one notified last.
C17_StatusTransitions ==
  [][\A i \in 1..Len(emitted') : IsStatusChanged(emitted'[i]) =>
       LET e == emitted'[i]
           a == actors'[e.addr]
           earlier == {j \in 1..(i - 1) : /\ IsStatusChanged(emitted'[j])
                                         /\ emitted'[j].addr = e.addr}
           later == {j \in (i + 1)..Len(emitted') :
                        /\ IsStatusChanged(emitted'[j])
                        /\ emitted'[j].addr = e.addr}
           before == IF earlier = {} THEN recs[a].status
                     ELSE emitted'[CHOOSE j \in earlier :
                                     \A k \in earlier : k <= j].status
       IN /\ <<before, e.status>> \in StatusTransitions
          /\ later = {} => recs'[a].status = e.status]_vars

\* The sends whose handler invocation has not completed: message, record,
\* number of the send, and whether it was made with a callback.
Pending(rs, running) ==
  UNION {{<<rs[a].messages[i].msg, a, rs[a].messages[i].sid,
            rs[a].messages[i].cb>> : i \in 1..Len(rs[a].messages)} :
         a \in 1..Len(rs)}
  \cup {<<inv.msg, inv.rec, inv.sid, inv.cb>> : inv \in running}

\* C18: the reply entry registered by a send with a callback is there until
\* the handler invocation for that send completes normally, and right after
\* that completion there is no entry for the message.
C18_ReplyEntryLifetime ==
  [][/\ \A p \in Pending(recs', inflight') :
          p[4] => replyTos'[p[1]] = <<p[2], p[3]>>
     /\ last'.op = "complete" =>
          \A inv \in inflight \ inflight' : replyTos'[inv.msg] = NoReplyTo]_vars

\* C19: the state a handler invocation receives is the state returned by the
\* invocation for the message dequeued before it (the initial state for the
\* first): when a message is dequeued every earlier invocation has returned
\* and the stored state is what the invocation receives, a completion stores
\* the returned state, and no other step changes a stored state.
C19_NoLostStateUpdate ==
  [][/\ \A inv \in inflight' :
          (\A old \in InFlightOf(inv.rec) : old.sid # inv.sid) =>
            /\ InFlightOf(inv.rec) = {}
            /\ inv.received = recs[inv.rec].state
     /\ last'.op = "complete" => recs'[last'.rec].state = last'.returned
     /\ \A a \in Recs :
          recs'[a].state # recs[a].state =>
            (last'.op = "complete" /\ last'.rec = a)]_vars

\* C20: a spawn whose generated identifier is already registered leaves the
\* registered record in place, with its handler, state, status and queued
\* messages; and when nothing is scheduled or running any more, every
\* message accepted for an actor has been handled by that actor's handler.
C20_SpawnKeepsLiveActor ==
  [][/\ (last'.op = "spawn" /\ actors[last'.addr] # NoActor) =>
          /\ actors'[last'.addr] = actors[last'.addr]
          /\ recs'[actors[last'.addr]] = recs[actors[last'.addr]]
     /\ (timers' = <<>> /\ inflight' = {}) =>
          \A a \in 1..Len(recs') : recs'[a].messages = <<>>]_vars

====
